---- MODULE Spec2Model ----
(***************************************************************************)
(* Model of src/cache.rs of twitter-export-likes: the user-lookup loaders  *)
(* (load_user_lookup, try_load_user_lookup) and the liked-tweets cache     *)
(* merger (load_all_liked_tweets_from_cache).                              *)
(*                                                                         *)
(* Option<T> is a sequence of length 0 (None) or 1 (Some(x)).  A file name *)
(* is the sequence of its code units, each a one-character string; the     *)
(* unit Invalid is a byte sequence that is not valid UTF-8.                *)
(***************************************************************************)
EXTENDS Integers, Sequences, FiniteSets, TLC

\* Largest number of entries the cache root holds in a checked state.
MaxEntries == 3

----------------------------------------------------------------------------
(* Option *)

None == <<>>

Some(x) == <<x>>

IsSome(o) == Len(o) = 1

Unwrap(o) == o[1]

----------------------------------------------------------------------------
(* Values held by the cache: user records, tweets, pages, lookups *)

User(id, name) == [id |-> id, name |-> name]

R1 == User("u1", "ann")
R2 == User("u2", "ben")
R3 == User("u3", "cy")

\* The account whose likes were fetched; SubjA2 is the same account after
\* it changed its display name between two fetch runs.
SubjA == User("s1", "al")
SubjA2 == User("s1", "al (new)")
SubjX == User("s2", "alx")

\* A tweet datum as a page file holds it: the resolved-author slot is empty.
Tweet(id, author, ts) ==
    [id |-> id, author_id |-> author, created_at |-> ts, user |-> None]

T1 == Tweet("t1", "u1", 2)
T2 == Tweet("t2", "u2", 1)
T3 == Tweet("t3", "u1", 2)
T4 == Tweet("t4", "u3", 1)
T5 == Tweet("t5", "u1", 3)
T6 == Tweet("t6", "u1", 1)

\* TwitLikeResponse: an optional subject user and an optional data sequence.
Page(user, data) == [user |-> user, data |-> data]

PgA == Page(Some(SubjA), Some(<<T1, T2>>))
PgB == Page(Some(SubjA2), Some(<<T3>>))
PgC == Page(None, Some(<<T4>>))
PgN == Page(None, None)
PgX == Page(Some(SubjX), Some(<<T5>>))
PgS == Page(Some(SubjX), Some(<<T6>>))

\* UserIdLookup.users_by_id: user id -> Option<User>.
LkFull == [users_by_id |-> [k \in {"u1", "u2", "u3"} |->
             IF k = "u1" THEN Some(R1) ELSE IF k = "u2" THEN Some(R2) ELSE Some(R3)]]
LkPart == [users_by_id |-> [k \in {"u1", "u2"} |->
             IF k = "u1" THEN Some(R1) ELSE None]]

\* UserIdLookup::new(): no keys.
UserIdLookupNew == [users_by_id |-> [k \in {} |-> None]]

----------------------------------------------------------------------------
(* File names *)

Invalid == "0xFF"

LikesDash == <<"l", "i", "k", "e", "s", "-">>

Alice == <<"a", "l">>
AliceXyz == <<"a", "l", "x">>

Usernames == {Alice, AliceXyz}

nAl1 == LikesDash \o <<"a", "l", "-", "1">>
nAl2 == LikesDash \o <<"a", "l", "-", "2">>
nAl3 == LikesDash \o <<"a", "l", "-", "3">>
nAlx1 == LikesDash \o <<"a", "l", "x", "-", "1">>
nAlNoSep == LikesDash \o <<"a", "l">>
nAlBad == LikesDash \o <<"a", "l", "-", Invalid>>
nUsers == <<"u", "s", "e", "r", "s">>
nNotes == <<"n", "o", "t", "e", "s">>

----------------------------------------------------------------------------
(* The cache root as fs::read_dir sees it *)

\* One item of the read_dir iterator.  kind: "file", "dir", or "ioerr" (the
\* iterator yields Err for this item).  state: what loading the path as a
\* page gives: "valid" (page), "corrupt", or "gone" (removed after listing).
Entry(name, kind, state, page) ==
    [name |-> name, kind |-> kind, state |-> state, page |-> page]

Catalog ==
    { Entry(nAl1, "file", "valid", PgA),
      Entry(nAl2, "file", "valid", PgB),
      Entry(nAl2, "file", "corrupt", PgN),
      Entry(nAl2, "file", "gone", PgN),
      Entry(nAl2, "dir", "corrupt", PgN),
      Entry(nAl3, "file", "valid", PgC),
      Entry(nAl3, "file", "valid", PgN),
      Entry(nAlx1, "file", "valid", PgX),
      Entry(nAlNoSep, "file", "valid", PgS),
      Entry(nNotes, "dir", "corrupt", PgN),
      Entry(nAlBad, "file", "valid", PgA),
      Entry(<<>>, "ioerr", "corrupt", PgN) }

UniqueNames(d) == \A e1 \in d, e2 \in d : e1.name = e2.name => e1 = e2

Directories ==
    {d \in SUBSET Catalog : Cardinality(d) <= MaxEntries /\ UniqueNames(d)}

\* The user lookup file at its canonical path, <cache root>/users.
LkFile(state, lookup) == [state |-> state, lookup |-> lookup]

LookupFiles ==
    { LkFile("missing", UserIdLookupNew), LkFile("corrupt", UserIdLookupNew),
      LkFile("valid", LkFull), LkFile("valid", LkPart) }

----------------------------------------------------------------------------
(* State *)

VARIABLES
    cwdOk,       \* env::current_dir() succeeds
    rootState,   \* <cwd>/.cache: "present", "absent", or "uncreatable"
    dir,         \* the entries of the cache root other than the lookup file
    lookupFile,  \* the user lookup file
    lkRes,       \* what the last load_user_lookup / try_load_user_lookup gave
    result,      \* what the last load_all_liked_tweets_from_cache gave
    prev         \* what the call before it gave

vars == <<cwdOk, rootState, dir, lookupFile, lkRes, result, prev>>

env == <<cwdOk, dir, lookupFile>>

\* What fs::read_dir yields: the entries of the root, the lookup file among
\* them when it exists.
ReadDir(d, lf) ==
    d \cup (IF lf.state = "missing" THEN {}
            ELSE {Entry(nUsers, "file", "corrupt", PgN)})

RECURSIVE Orders(_)
\* Every order in which the iterator may yield the entries of S.
Orders(S) ==
    IF S = {} THEN {<<>>}
    ELSE UNION {{<<e>> \o o : o \in Orders(S \ {e})} : e \in S}

----------------------------------------------------------------------------
(* Typed object store (serialization.rs, json_types.rs) *)

Ok(v) == [ok |-> TRUE, val |-> v, err |-> "none"]

Err(kind, v) == [ok |-> FALSE, val |-> v, err |-> kind]

\* UserIdLookup::load(path) and UserIdLookup::load_default().
UserIdLookupLoad(lf) ==
    IF lf.state = "valid" THEN Ok(lf.lookup)
    ELSE IF lf.state = "missing" THEN Err("not_found", UserIdLookupNew)
    ELSE Err("deserialization", UserIdLookupNew)

\* TwitLikeResponse::load(path): a directory, a removed file and a corrupt
\* file give an error.
TwitLikeResponseLoad(e) ==
    IF e.kind = "file" /\ e.state = "valid" THEN Ok(e.page)
    ELSE IF e.kind = "file" /\ e.state = "gone" THEN Err("not_found", PgN)
    ELSE Err("deserialization", PgN)

\* LikedTweets::new().
LikedTweetsNew == [user |-> None, tweets |-> <<>>]

RECURSIVE InsertByDate(_, _)
\* t placed after every element of the sorted sequence s that is not later.
InsertByDate(s, t) ==
    IF s = <<>> THEN <<t>>
    ELSE IF s[Len(s)].created_at <= t.created_at THEN Append(s, t)
    ELSE Append(InsertByDate(SubSeq(s, 1, Len(s) - 1), t), s[Len(s)])

RECURSIVE SortTweets(_)
SortTweets(s) ==
    IF s = <<>> THEN <<>>
    ELSE InsertByDate(SortTweets(SubSeq(s, 1, Len(s) - 1)), s[Len(s)])

\* LikedTweets::sort_by_date().
SortByDate(lt) == [lt EXCEPT !.tweets = SortTweets(@)]

----------------------------------------------------------------------------
(* load_user_lookup, try_load_user_lookup *)

\* get_cache_directory_path(): Err when the working directory is unavailable.
GetCacheDirectoryPath(cwd) == cwd

\* fs::create_dir_all(&cache_directory): the state of the root afterwards.
CreateDirAll(cwd, root) ==
    IF cwd /\ root = "absent" THEN "present" ELSE root

LoadUserLookupFn(cwd, root, lf) ==
    IF ~GetCacheDirectoryPath(cwd) THEN Err("io", UserIdLookupNew)
    ELSE IF CreateDirAll(cwd, root) # "present" THEN Err("io", UserIdLookupNew)
    ELSE UserIdLookupLoad(lf)

LkOutcome(fn, status, val, err) ==
    [fn |-> fn, status |-> status, val |-> val, err |-> err]

TryUnwrapPanics(r) ==
    IF r.ok THEN LkOutcome("try", "returned", r.val, "none")
    ELSE LkOutcome("try", "panic", UserIdLookupNew, r.err)

\* The match of try_load_user_lookup on load_user_lookup()'s result.
TryMatch(r) ==
    IF r.ok THEN LkOutcome("try", "returned", r.val, "none")
    ELSE LkOutcome("try", "returned", UserIdLookupNew, "none")

LoadUserLookup ==
    /\ lkRes' = LET r == LoadUserLookupFn(cwdOk, rootState, lookupFile)
                IN  LkOutcome("load", IF r.ok THEN "ok" ELSE "err", r.val, r.err)
    /\ rootState' = CreateDirAll(cwdOk, rootState)
    /\ UNCHANGED <<env, result, prev>>

TryLoadUserLookup ==
    /\ lkRes' = TryMatch(LoadUserLookupFn(cwdOk, rootState, lookupFile))
    /\ rootState' = CreateDirAll(cwdOk, rootState)
    /\ UNCHANGED <<env, result, prev>>

----------------------------------------------------------------------------
(* load_all_liked_tweets_from_cache *)

\* Path::file_name(): None for a path that ends in "..".
FileName(name) == IF name = <<".", ".">> THEN None ELSE Some(name)

\* OsStr::to_str(): None unless every unit is valid UTF-8.
ToStr(name) ==
    IF \E i \in 1..Len(name) : name[i] = Invalid THEN None ELSE Some(name)

FormatPrefixNoSeparator(username) == LikesDash \o username

\* format!("likes-{username}-")
FormatPrefix(username) == LikesDash \o username \o <<"-">>

\* str::starts_with
StartsWith(s, p) == Len(p) <= Len(s) /\ SubSeq(s, 1, Len(p)) = p

\* HashMap::get
Get(m, k) == IF k \in DOMAIN m THEN Some(m[k]) ELSE None

\* The state of one scan: status "run" while the loop goes on, "page_err"
\* once `?` returned a page's load error, "panic" once the thread panicked.
\* loaded is the "Loaded: <path>" lines printed so far; userTrace is
\* liked_tweets.user after each page that loaded.
ScanStart ==
    [status |-> "run", lt |-> LikedTweetsNew, loaded |-> <<>>, userTrace |-> <<>>]

Panic(st) == [st EXCEPT !.status = "panic"]

PageLoadSkipped(st) == st

\* `TwitLikeResponse::load(&path)?` on Err: return the error at once.
PageLoadFailed(st) == [st EXCEPT !.status = "page_err"]

AdoptUserAlways(cur, pageUser) == pageUser

\* if let None = liked_tweets.user { liked_tweets.user = twit_like_resp.user; }
AdoptUser(cur, pageUser) == IF cur = None THEN pageUser ELSE cur

PushDatumUnresolved(st, datum, lkup) ==
    LET got == Get(lkup.users_by_id, datum.author_id)
        user == IF IsSome(got) THEN Unwrap(got) ELSE None
    IN  [st EXCEPT !.lt.tweets = Append(@, [datum EXCEPT !.user = user])]

\* The body of `for mut datum in data`: resolve the author, fill the slot,
\* push the datum.
PushDatum(st, datum, lkup) ==
    LET got == Get(lkup.users_by_id, datum.author_id)
    IN  IF ~IsSome(got) THEN Panic(st)
        ELSE IF ~IsSome(Unwrap(got)) THEN Panic(st)
        ELSE [st EXCEPT !.lt.tweets =
                 Append(@, [datum EXCEPT !.user = Some(Unwrap(Unwrap(got)))])]

RECURSIVE PushData(_, _, _)
\* for mut datum in data { ... }: stops at the first panic.
PushData(st, data, lkup) ==
    IF data = <<>> \/ st.status # "run" THEN st
    ELSE PushData(PushDatum(st, Head(data), lkup), Tail(data), lkup)

MergePageNested(st, page, lkup) ==
    LET wasUnset == st.lt.user = None
        st1 == [st EXCEPT !.lt.user = AdoptUser(@, page.user)]
        st2 == [st1 EXCEPT !.userTrace = Append(@, st1.lt.user)]
    IN  IF wasUnset /\ IsSome(page.data)
        THEN PushData(st2, Unwrap(page.data), lkup) ELSE st2

\* What the loop does with a page that loaded.
MergePage(st, page, lkup) ==
    LET st1 == [st EXCEPT !.lt.user = AdoptUser(@, page.user)]
        st2 == [st1 EXCEPT !.userTrace = Append(@, st1.lt.user)]
    IN  IF IsSome(page.data) THEN PushData(st2, Unwrap(page.data), lkup) ELSE st2

\* One iteration of `for path in paths`.
ScanEntry(st, e, username, lkup) ==
    IF e.kind = "ioerr" THEN Panic(st)
    ELSE LET filen == FileName(e.name)
         IN  IF ~IsSome(filen) THEN st
             ELSE LET str == ToStr(Unwrap(filen))
                  IN  IF ~IsSome(str) THEN Panic(st)
                      ELSE IF ~StartsWith(Unwrap(str), FormatPrefix(username)) THEN st
                      ELSE LET st1 == [st EXCEPT !.loaded = Append(@, e.name)]
                               r == TwitLikeResponseLoad(e)
                           IN  IF ~r.ok THEN PageLoadFailed(st1)
                               ELSE MergePage(st1, r.val, lkup)

RECURSIVE Scan(_, _, _, _)
\* for path in paths { ... }: ends at the first error return or panic.
Scan(st, order, username, lkup) ==
    IF order = <<>> \/ st.status # "run" THEN st
    ELSE Scan(ScanEntry(st, Head(order), username, lkup), Tail(order), username, lkup)

\* What a call gave.  status: "none" (no call yet), "ok" (Ok(liked_tweets)),
\* "io_err", "lookup_err", "page_err" (Err propagated by `?`), "no_tweets"
\* (Err(CacheLoadError::NoTweets)), "panic".  value is the aggregate of an
\* Ok; presort is liked_tweets.tweets as the scan left it.
Outcome(username, status, value, st) ==
    [username |-> username, status |-> status, value |-> value,
     loaded |-> st.loaded, presort |-> st.lt.tweets, userTrace |-> st.userTrace]

NoOutcome == Outcome(<<>>, "none", None, ScanStart)

NeverEmpty(tweets) == FALSE

\* liked_tweets.tweets.is_empty()
IsEmpty(tweets) == Len(tweets) = 0

ReturnUnsorted(lt) == lt

\* liked_tweets.sort_by_date(); Ok(liked_tweets)
SortAndReturn(lt) == SortByDate(lt)

\* The end of the function, after the loop.
Finish(st, username) ==
    IF st.status # "run" THEN Outcome(username, st.status, None, st)
    ELSE IF IsEmpty(st.lt.tweets) THEN Outcome(username, "no_tweets", None, st)
    ELSE Outcome(username, "ok", Some(SortAndReturn(st.lt)), st)

\* Every outcome load_all_liked_tweets_from_cache(username) can have.
LoadAllOutcomes(username, cwd, root, d, lf) ==
    IF ~cwd THEN {Outcome(username, "io_err", None, ScanStart)}
    ELSE IF root # "present" THEN {Outcome(username, "io_err", None, ScanStart)}
    ELSE LET lk == UserIdLookupLoad(lf)
         IN  IF ~lk.ok THEN {Outcome(username, "lookup_err", None, ScanStart)}
             ELSE {Finish(Scan(ScanStart, order, username, lk.val), username) :
                      order \in Orders(ReadDir(d, lf))}

\* A call by a caller that keeps nothing of the call before.
LoadAll(username) ==
    /\ \E r \in LoadAllOutcomes(username, cwdOk, rootState, dir, lookupFile) :
          result' = r
    /\ UNCHANGED <<env, rootState, lkRes, prev>>

\* A call by a caller that keeps what the call before gave, to compare.
LoadAllAgain(username) ==
    /\ \E r \in LoadAllOutcomes(username, cwdOk, rootState, dir, lookupFile) :
          result' = r
    /\ prev' = result
    /\ UNCHANGED <<env, rootState, lkRes>>

----------------------------------------------------------------------------
(* Specification *)

Init ==
    /\ cwdOk \in BOOLEAN
    /\ rootState \in {"present", "absent", "uncreatable"}
    /\ dir \in Directories
    /\ lookupFile \in LookupFiles
    /\ rootState # "present" => dir = {} /\ lookupFile.state = "missing"
    /\ lkRes = LkOutcome("none", "none", UserIdLookupNew, "none")
    /\ result = NoOutcome
    /\ prev = NoOutcome

\* The merger, called any number of times.
Next == \E username \in Usernames : LoadAll(username)

Spec == Init /\ [][Next]_vars

\* The merger called repeatedly, each outcome kept for the next call.
NextRepeat == \E username \in Usernames : LoadAllAgain(username)

SpecRepeat == Init /\ [][NextRepeat]_vars

\* The two user-lookup loaders.
NextLookup == LoadUserLookup \/ TryLoadUserLookup

SpecLookup == Init /\ [][NextLookup]_vars

----------------------------------------------------------------------------
(* What the properties speak of, stated on the cache itself *)

Done == result.status # "none"

\* The entries of the cache root.
Listing == ReadDir(dir, lookupFile)

\* name is "likes-", then the username, then "-", then anything.
HasFullPrefix(name, username) ==
    /\ Len(name) >= Len(username) + 7
    /\ \A i \in 1..6 : name[i] = LikesDash[i]
    /\ \A i \in 1..Len(username) : name[6 + i] = username[i]
    /\ name[7 + Len(username)] = "-"

\* The files of the cache root whose name starts with likes-<username>-.
MatchingFiles(username) ==
    {e \in Listing : e.kind = "file" /\ HasFullPrefix(e.name, username)}

\* Loading the entry as a page fails.
LoadFails(e) == ~(e.kind = "file" /\ e.state = "valid")

\* The tweet data entries of the page the entry holds.
PageData(e) ==
    IF LoadFails(e) \/ e.page.data = None THEN <<>> ELSE e.page.data[1]

RECURSIVE SumCounts(_)
SumCounts(S) ==
    IF S = {} THEN 0
    ELSE LET e == CHOOSE x \in S : TRUE
         IN  Len(PageData(e)) + SumCounts(S \ {e})

PageTweetIds(S) == UNION {{PageData(e)[i].id : i \in 1..Len(PageData(e))} : e \in S}

\* The entry a printed "Loaded:" line names.
EntryNamed(name) == CHOOSE e \in Listing : e.name = name

LoadedNames == {result.loaded[i] : i \in 1..Len(result.loaded)}

\* The author identifier resolves to a present User Record of the lookup.
Resolves(author) ==
    /\ lookupFile.state = "valid"
    /\ author \in DOMAIN lookupFile.lookup.users_by_id
    /\ lookupFile.lookup.users_by_id[author] # None

UnresolvedIn(S) ==
    \E e \in S : \E i \in 1..Len(PageData(e)) : ~Resolves(PageData(e)[i].author_id)

\* The root can be listed and the lookup loads.
Ready == cwdOk /\ rootState = "present" /\ lookupFile.state = "valid"

Undecodable(e) == \E i \in 1..Len(e.name) : e.name[i] = Invalid

\* An entry at which the scan stops whatever the pages hold: an item the
\* iterator could not read, a name that is not UTF-8, a directory whose
\* name has the prefix.
Aborting(e, username) ==
    \/ e.kind = "ioerr"
    \/ Undecodable(e)
    \/ e.kind = "dir" /\ HasFullPrefix(e.name, username)

TweetsOf(r) == r.value[1].tweets

TweetsAt(s, k) ==
    LET At(t) == t.created_at = k
    IN  SelectSeq(s, At)

Timestamps(s) == {s[i].created_at : i \in 1..Len(s)}

----------------------------------------------------------------------------
(* C1 *)

\* C1 as stated: with zero matching files the call fails with NoTweets,
\* whatever the state of the cache root and of the user lookup.
C1_NoTweetsInEveryState ==
    (Done /\ MatchingFiles(result.username) = {}) => result.status = "no_tweets"

\* C1 (amended): with zero matching files the call never returns an
\* aggregate: it fails with the I/O error when the root cannot be listed,
\* with the lookup's load error when the lookup is missing or corrupt, and
\* with NoTweets when both succeed and no entry stops the scan.
C1_NoMatchingFilesNoAggregate ==
    (Done /\ MatchingFiles(result.username) = {}) =>
        /\ result.status # "ok" /\ result.value = None
        /\ (~cwdOk \/ rootState # "present") => result.status = "io_err"
        /\ (cwdOk /\ rootState = "present" /\ lookupFile.state # "valid")
              => result.status = "lookup_err"
        /\ (Ready /\ \A e \in Listing : ~Aborting(e, result.username))
              => result.status = "no_tweets"

\* NoTweets for "al" although a page of another user holds tweets.
C1_Witness ==
    /\ result.status = "no_tweets"
    /\ result.username = Alice
    /\ MatchingFiles(Alice) = {}
    /\ \E e \in Listing : PageData(e) # <<>>

----------------------------------------------------------------------------
(* C2 *)

\* C2: a returned aggregate holds as many tweets as the pages of the
\* matching files hold together, and exactly their tweets.
C2_CountIsSumOfPages ==
    result.status = "ok" =>
        /\ Len(TweetsOf(result)) = SumCounts(MatchingFiles(result.username))
        /\ {TweetsOf(result)[i].id : i \in 1..Len(TweetsOf(result))}
              = PageTweetIds(MatchingFiles(result.username))

\* Two pages merged into three tweets beside a non-matching page file.
C2_Witness ==
    /\ result.status = "ok"
    /\ Len(TweetsOf(result)) = 3
    /\ Cardinality(MatchingFiles(result.username)) = 2
    /\ \E e \in Listing \ MatchingFiles(result.username) : PageData(e) # <<>>

----------------------------------------------------------------------------
(* C3 *)

\* C3: when a tweet of a matching page has an author the lookup does not
\* resolve, no aggregate is returned (the call panics once the scan reaches
\* the tweet); every tweet of a returned aggregate carries the lookup's
\* record of its author.
C3_UnresolvedAuthorIsFatal ==
    /\ (Done /\ UnresolvedIn(MatchingFiles(result.username))) =>
          /\ result.status \in {"panic", "page_err", "lookup_err", "io_err"}
          /\ result.value = None
          /\ (Ready /\ \A e \in Listing :
                          ~Aborting(e, result.username)
                          /\ (e \in MatchingFiles(result.username) => ~LoadFails(e)))
                => result.status = "panic"
    /\ result.status = "ok" =>
          \A i \in 1..Len(TweetsOf(result)) :
              /\ Resolves(TweetsOf(result)[i].author_id)
              /\ TweetsOf(result)[i].user =
                    lookupFile.lookup.users_by_id[TweetsOf(result)[i].author_id]

\* A panic on an unpopulated or absent author after a page was loaded.
C3_Witness ==
    /\ result.status = "panic"
    /\ Ready
    /\ result.loaded # <<>>
    /\ \A e \in Listing : ~Aborting(e, result.username)
    /\ UnresolvedIn(MatchingFiles(result.username))

----------------------------------------------------------------------------
(* C4 *)

\* C4: the entries loaded as pages are those whose name has the full prefix
\* likes-<username>- : nothing else is loaded, a finished scan has loaded
\* every matching file, and the tweets of an aggregate come from them.
C4_LoadedIffFullPrefix ==
    Done =>
        /\ \A n \in LoadedNames : HasFullPrefix(n, result.username)
        /\ result.status \in {"ok", "no_tweets"} =>
              LoadedNames = {e.name : e \in MatchingFiles(result.username)}
        /\ result.status = "ok" =>
              \A i \in 1..Len(TweetsOf(result)) :
                  TweetsOf(result)[i].id \in PageTweetIds(MatchingFiles(result.username))

\* likes-al-1 is loaded for "al"; likes-alx-1 and likes-al are not.
C4_Witness ==
    /\ result.status = "ok"
    /\ result.username = Alice
    /\ nAl1 \in LoadedNames
    /\ \E e \in Listing : e.name = nAlx1
    /\ \E e \in Listing : e.name = nAlNoSep
    /\ nAlx1 \notin LoadedNames /\ nAlNoSep \notin LoadedNames

----------------------------------------------------------------------------
(* C5 *)

\* load_user_lookup succeeds: judged on the state after the call, in which
\* an absent root that could be created is present.
LoadSucceeds == cwdOk /\ rootState = "present" /\ lookupFile.state = "valid"

\* C5: try_load_user_lookup always returns a lookup: the loaded one when
\* load_user_lookup succeeds, an empty one when it fails; load_user_lookup
\* fails when the lookup is missing, and succeeds only with a loadable one.
C5_TryLoadIsTotal ==
    /\ lkRes.fn = "try" =>
          /\ lkRes.status = "returned"
          /\ lkRes.val = IF LoadSucceeds THEN lookupFile.lookup ELSE UserIdLookupNew
    /\ lkRes.fn = "load" =>
          /\ lkRes.status \in {"ok", "err"}
          /\ lkRes.status = "ok" <=> LoadSucceeds
          /\ lkRes.status = "ok" => lkRes.val = lookupFile.lookup
          /\ lookupFile.state = "missing" => lkRes.status = "err"

\* try_load_user_lookup gave the empty lookup where the file is corrupt.
C5_Witness ==
    /\ lkRes.fn = "try"
    /\ lkRes.status = "returned"
    /\ cwdOk /\ rootState = "present"
    /\ lookupFile.state = "corrupt"
    /\ lkRes.val = UserIdLookupNew

----------------------------------------------------------------------------
(* C6 *)

----------------------------------------------------------------------------
(* C7 *)

\* C7: two calls for one username on the unchanged cache that both return
\* an aggregate return equal ones: the same subject user and, timestamp by
\* timestamp, the same tweets, whatever the two listing orders were.
C7_Idempotent ==
    (result.status = "ok" /\ prev.status = "ok" /\ result.username = prev.username) =>
        /\ result.value[1].user = prev.value[1].user
        /\ Len(TweetsOf(result)) = Len(TweetsOf(prev))
        /\ \A k \in Timestamps(TweetsOf(result)) \cup Timestamps(TweetsOf(prev)) :
              LET a == TweetsAt(TweetsOf(result), k)
                  b == TweetsAt(TweetsOf(prev), k)
              IN  /\ Len(a) = Len(b)
                  /\ {a[i] : i \in 1..Len(a)} = {b[i] : i \in 1..Len(b)}

----------------------------------------------------------------------------
(* C8 *)

\* C8: a page that fails to load ends the call with the load error at that
\* page: it is the last entry loaded, no aggregate is returned, and an
\* aggregate that is returned was built from every matching file.
C8_LoadFailureIsFatal ==
    Done =>
        /\ \A i \in 1..Len(result.loaded) :
              LoadFails(EntryNamed(result.loaded[i])) =>
                  /\ result.status = "page_err"
                  /\ i = Len(result.loaded)
        /\ (\E e \in MatchingFiles(result.username) : LoadFails(e))
              => result.status \notin {"ok", "no_tweets"}
        /\ result.status # "ok" => result.value = None
        /\ result.status = "ok" =>
              /\ LoadedNames = {e.name : e \in MatchingFiles(result.username)}
              /\ TweetsOf(result) # <<>>

\* The load error after a page was merged and before another was listed.
C8_Witness ==
    /\ result.status = "page_err"
    /\ result.presort # <<>>
    /\ result.value = None
    /\ \E e \in MatchingFiles(result.username) : e.name \notin LoadedNames

----------------------------------------------------------------------------
(* C9 *)

\* An entry the scan is to pass over, or a page that merges without fault.
Benign(e, username) ==
    \/ e.kind = "dir"
    \/ e.kind = "file" /\ ~Undecodable(e) /\ ~HasFullPrefix(e.name, username)
    \/ /\ e \in MatchingFiles(username) /\ ~Undecodable(e) /\ ~LoadFails(e)
       /\ ~UnresolvedIn({e})

\* C9: a non-matching file and a subdirectory of any name are skipped: they
\* are never loaded as a page and never make the call fail.
C9_SkippedSilently ==
    Done =>
        /\ \A e \in Listing :
              (e.kind = "dir" \/ (e.kind = "file" /\ ~HasFullPrefix(e.name, result.username)))
                  => e.name \notin LoadedNames
        /\ (Ready /\ \A e \in Listing : Benign(e, result.username))
              => result.status \in {"ok", "no_tweets"}

----------------------------------------------------------------------------
(* C10 *)

\* The pages that loaded, in the order of the scan.
PageLoaded(i) == EntryNamed(result.loaded[i]).page

\* The subject user of the first of the first n loaded pages that has one.
FirstSubject(n) ==
    IF \E j \in 1..n : PageLoaded(j).user # None
    THEN PageLoaded(CHOOSE j \in 1..n :
                       /\ PageLoaded(j).user # None
                       /\ \A h \in 1..(j - 1) : PageLoaded(h).user = None).user
    ELSE None

\* C10: after each loaded page the subject user is that of the first page
\* in listing order that carries one, unset while none did; a returned
\* aggregate has the value the scan ended with.
C10_SubjectFromFirstCarrier ==
    Done =>
        /\ \A i \in 1..Len(result.userTrace) : result.userTrace[i] = FirstSubject(i)
        /\ \A i \in 2..Len(result.userTrace) :
              result.userTrace[i - 1] # None => result.userTrace[i] = result.userTrace[i - 1]
        /\ result.status = "ok" =>
              /\ Len(result.userTrace) = Len(result.loaded)
              /\ result.value[1].user = FirstSubject(Len(result.loaded))

\* A later page carries another subject user and does not overwrite.
C10_Witness ==
    /\ result.status = "ok"
    /\ Len(result.userTrace) = 2
    /\ PageLoaded(2).user # None
    /\ PageLoaded(2).user # result.userTrace[2]
    /\ result.value[1].user = PageLoaded(1).user

====
